---- MODULE Spec2Model ----
(***************************************************************************)
(* Model of the news aggregator's ingestion and query path (src/main.py):  *)
(* fetch_rss, upsert_articles_for_source, refresh_articles, get_articles.  *)
(* Text is a sequence of one-character strings; an optional value is a     *)
(* record [some, val].  The article store (module database, not part of    *)
(* the sources at hand) is a sequence of documents in insertion order.     *)
(***************************************************************************)
EXTENDS Integers, Sequences, FiniteSets, TLC

VARIABLES
    store,        \* the "article" collection, in insertion (natural) order
    now,          \* the clock read by datetime.now(timezone.utc)
    feeds,        \* what each source's rss_url serves
    active,       \* the request threads that may run
    nreq,         \* requests started so far
    pc,           \* per thread: position in the handler
    req,          \* per thread: the request being served
    resp,         \* per thread: the response of the last finished request
    srcIdx,       \* per thread: refresh_articles' position in SOURCES
    feed_items,   \* per thread: upsert_articles_for_source's feed_items
    itemIdx,      \* per thread: position of `item` in feed_items
    inserted,     \* per thread: upsert_articles_for_source's counter
    results,      \* per thread: refresh_articles' results dict
    total,        \* per thread: refresh_articles' total
    hist,         \* per thread: what happened in the current request (observation only)
    prevClean,    \* how the last refresh went: "none", "raised" (left by an exception),
                  \* "failed" (returned, some entry failed), "clean" (observation only)
    pin,          \* feed parser study: the document handed to the parser
    pout          \* feed parser study: the parser's output

vars == <<store, now, feeds, active, nreq, pc, req, resp, srcIdx, feed_items,
          itemIdx, inserted, results, total, hist, prevClean, pin, pout>>

----------------------------------------------------------------------------
(* Bounds of the model. *)

\* Requests (refresh or query) started in one behaviour.
MaxRequests == 2

----------------------------------------------------------------------------
(* Optional values and text. *)

Null == [some |-> FALSE, val |-> <<>>]
Some(s) == [some |-> TRUE, val |-> s]

\* Optional[int], Optional[datetime] (an instant is a natural number)
NullInt == [some |-> FALSE, val |-> 0]
SomeInt(n) == [some |-> TRUE, val |-> n]
NullTime == NullInt
SomeTime(t) == SomeInt(t)

\* Optional[str] for a slug
NullStr == [some |-> FALSE, val |-> ""]
SomeStr(x) == [some |-> TRUE, val |-> x]

\* Python truthiness of an Optional[str]: None and "" are falsy.
Truthy(o) == o.some /\ o.val # <<>>

IsSpace(c) == c \in {" ", "\t", "\n"}

RECURSIVE LStrip(_)
LStrip(s) == IF s # <<>> /\ IsSpace(Head(s)) THEN LStrip(Tail(s)) ELSE s

RECURSIVE RStrip(_)
RStrip(s) ==
    IF s # <<>> /\ IsSpace(s[Len(s)]) THEN RStrip(SubSeq(s, 1, Len(s) - 1)) ELSE s

\* str.strip()
Strip(s) == RStrip(LStrip(s))

\* str.startswith(p)
StartsWith(s, p) == Len(s) >= Len(p) /\ SubSeq(s, 1, Len(p)) = p

HttpPrefix == <<"h", "t", "t", "p">>

----------------------------------------------------------------------------
(* Static configuration. *)

\* SOURCES, by slug, in list order.
SOURCES == <<"bbc", "reuters", "ap", "cnn">>

Slugs == {SOURCES[i] : i \in 1..Len(SOURCES)}

\* Query(40, ge=1, le=200)
DefaultLimit == 40
MinLimit == 1
MaxLimit == 200

----------------------------------------------------------------------------
(* Datetime normalizer. *)

\* A timestamp text is modelled by the format it is written in and the
\* instant it denotes; "empty" is the empty string.
KnownFormats == {"rfc822_tzname", "rfc822_offset", "iso_offset", "iso_z"}

NoPub == [some |-> FALSE, fmt |-> "empty", t |-> 0]
PubText(f, t) == [some |-> TRUE, fmt |-> f, t |-> t]

\* _parse_rss_datetime: None for absent or empty text, the instant for the
\* first format that matches, None when none does.
_parse_rss_datetime(text) ==
    IF ~text.some \/ text.fmt = "empty" THEN NullTime
    ELSE IF text.fmt \in KnownFormats THEN SomeTime(text.t)
    ELSE NullTime

----------------------------------------------------------------------------
(* Feed parser. *)

\* An item or entry element, by what the parser's lookups find in it:
\*   title  findtext("title")
\*   link   findtext("link")
\*   href   the Atom link element's href attribute (Null: no element or no attribute)
\*   pub    the first non-empty of pubDate, Atom updated, Dublin-Core date
RawItem(t, l, h, p) == [title |-> t, link |-> l, href |-> h, pub |-> p]

\* A fetched document: malformed XML, or a root with or without a channel
\* element, the channel's item children and the root's Atom entry children.
Malformed == [wellformed |-> FALSE, channel |-> FALSE, items |-> <<>>, entries |-> <<>>]
Rss(items) == [wellformed |-> TRUE, channel |-> TRUE, items |-> items, entries |-> <<>>]
Atom(entries) == [wellformed |-> TRUE, channel |-> FALSE, items |-> <<>>, entries |-> entries]

\* title = t.strip() if t
ParseTitle(it) == IF Truthy(it.title) THEN Some(Strip(it.title.val)) ELSE Null

\* link = l.strip() if l and l.strip().startswith("http")
ParsePlainLink(it) ==
    IF Truthy(it.link) /\ StartsWith(Strip(it.link.val), HttpPrefix)
    THEN Some(Strip(it.link.val))
    ELSE Null

\* if link is None: the Atom link element's href, when it has one
ParseLink(it) ==
    LET link == ParsePlainLink(it)
    IN  IF ~link.some
        THEN (IF Truthy(it.href) THEN it.href ELSE Null)
        ELSE link

\* The entry appended to `parsed` for an item that is emitted.
ParseItem(it) ==
    [title |-> ParseTitle(it).val,
     link |-> ParseLink(it).val,
     published_at |-> _parse_rss_datetime(it.pub)]

\* if title and link
Emitted(it) == Truthy(ParseTitle(it)) /\ Truthy(ParseLink(it))

RECURSIVE ParseItems(_)
ParseItems(items) ==
    IF items = <<>> THEN <<>>
    ELSE (IF Emitted(Head(items)) THEN <<ParseItem(Head(items))>> ELSE <<>>)
         \o ParseItems(Tail(items))

\* fetch_rss after the HTTP exchange: ET.fromstring, dialect detection, the loop.
ParseFeed(content) ==
    IF ~content.wellformed THEN <<>>
    ELSE IF content.channel THEN ParseItems(content.items)
    ELSE ParseItems(content.entries)

----------------------------------------------------------------------------
(* Texts used as inputs. *)

T_A == <<"A">>
T_B == <<"B">>
T_padded == <<" ", "C", "\n">>
T_blank == <<" ", "\t">>

L_a == <<"h", "t", "t", "p", ":", "/", "/", "a">>
L_b == <<"h", "t", "t", "p", ":", "/", "/", "b">>
L_c == <<"h", "t", "t", "p", "s", ":", "/", "/", "c">>
L_a_padded == <<" ">> \o L_a \o <<"\n">>
L_ftp == <<"f", "t", "p", ":", "/", "/", "a">>
L_rel == <<"/", "r">>

TitleInputs == {Null, Some(<<>>), Some(T_blank), Some(T_A), Some(T_padded)}
LinkInputs == {Null, Some(<<>>), Some(L_a), Some(L_a_padded), Some(L_ftp), Some(L_rel)}
HrefInputs == {Null, Some(<<>>), Some(L_b), Some(L_rel)}
PubInputs == {NoPub, PubText("rfc822_tzname", 2), PubText("other", 2)}

RawItemInputs ==
    {RawItem(t, l, h, p) : t \in TitleInputs, l \in LinkInputs, h \in HrefInputs,
                           p \in PubInputs}

----------------------------------------------------------------------------
(* The article store. *)

Article(link, title, slug, pub, created) ==
    [link |-> link, title |-> title, source_slug |-> slug,
     published_at |-> pub, created_at |-> created]

\* A filter document: {}, {"link": l} or {"source_slug": s}.
NoFilter == [link |-> Null, source_slug |-> NullStr]
LinkFilter(l) == [link |-> Some(l), source_slug |-> NullStr]
SourceFilter(x) == [link |-> Null, source_slug |-> SomeStr(x)]

Matches(doc, filt) ==
    /\ filt.link.some => doc.link = filt.link.val
    /\ filt.source_slug.some => doc.source_slug = filt.source_slug.val

RECURSIVE FilterDocs(_, _)
FilterDocs(st, filt) ==
    IF st = <<>> THEN <<>>
    ELSE (IF Matches(Head(st), filt) THEN <<Head(st)>> ELSE <<>>)
         \o FilterDocs(Tail(st), filt)

Take(seq, n) == SubSeq(seq, 1, IF Len(seq) < n THEN Len(seq) ELSE n)

\* database.get_documents(collection, filter, limit): the matching documents
\* in natural order, at most `limit` of them.
get_documents(st, filt, limit) == Take(FilterDocs(st, filt), limit)

\* database.create_document(collection, doc)
create_document(st, doc) == Append(st, doc)

\* Sort keys of .sort([("published_at", -1), ("created_at", -1)]): a null
\* published_at compares below every date, so it comes last when descending.
PubRank(doc) == IF doc.published_at.some THEN doc.published_at.val + 1 ELSE 0

\* doc a does not come after doc b in the sorted result
SortsBefore(a, b) ==
    \/ PubRank(a) > PubRank(b)
    \/ PubRank(a) = PubRank(b) /\ a.created_at >= b.created_at

RECURSIVE InsertSorted(_, _)
InsertSorted(doc, sorted) ==
    IF sorted = <<>> THEN <<doc>>
    ELSE IF SortsBefore(Head(sorted), doc)
         THEN <<Head(sorted)>> \o InsertSorted(doc, Tail(sorted))
         ELSE <<doc>> \o sorted

RECURSIVE SortDocs(_)
SortDocs(docs) ==
    IF docs = <<>> THEN <<>>
    ELSE InsertSorted(Head(docs), SortDocs(Tail(docs)))

\* db["article"].find(filt).sort([...]).limit(limit)
find_sorted(st, filt, limit) == Take(SortDocs(FilterDocs(st, filt)), limit)

Links(st) == {st[i].link : i \in 1..Len(st)}

----------------------------------------------------------------------------
(* Requests, responses and the request threads. *)

Workers == {"w1", "w2"}

EmptyCounts == [x \in {} |-> 0]

\* given: the limit parameter as sent (NullInt: omitted); limit: its value in the handler
NoReq == [op |-> "none", source |-> "", given |-> NullInt, limit |-> 0, refresh |-> FALSE]

\* kind: "none"          no request has finished yet
\*       "ok"            the handler returned
\*       "rejected"      parameter validation refused the request (422)
\*       "refresh_error" an exception left refresh_articles (500)
\*       "query_error"   an exception left get_articles' read (500)
\* path: how get_articles obtained its items ("sorted", "fallback", "")
Response(kind, items, path, tot, counts) ==
    [kind |-> kind, items |-> items, path |-> path, inserted |-> tot,
     by_source |-> counts]

NoResp == Response("none", <<>>, "", 0, EmptyCounts)

\* What the model records about the request in progress.
NoHist ==
    [prevRun |-> "none",       \* how the refresh before this one went
     runStart |-> <<>>,        \* the store when this refresh began
     srcStart |-> <<>>,        \* the store when the current source began
     fetchRaised |-> FALSE,    \* fetch_rss raised in this request
     storeFailed |-> FALSE,    \* a store operation raised in this refresh
     checked |-> {},           \* positions of the current feed whose check ran
     failed |-> {},            \* positions whose check or insert raised
     created |-> {}]           \* positions whose insert succeeded

\* Values a caller may pass.
SourceInputs == {"", "bbc"}
LimitInputs == {NullInt} \cup {SomeInt(n) : n \in {0, 1, 200, 201, 500}}

\* limit: int = Query(40, ge=1, le=200)
LimitParam(given) == IF given.some THEN given.val ELSE DefaultLimit
\* Mutant: the upper bound le=200 left out.
LimitValid_NoUpper(limit) == limit >= MinLimit

LimitValid(limit) == limit >= MinLimit /\ limit <= MaxLimit

\* filt = {}; if source: filt["source_slug"] = source
QueryFilter(source) == IF source # "" THEN SourceFilter(source) ELSE NoFilter

\* Mutant: the existence check matches by title instead of link.
Existing_ByTitle(st, item) == \E i \in 1..Len(st) : st[i].title = item.title

\* Mutant: the existence check never finds anything.
Existing_Never(st, item) == FALSE

\* existing = get_documents("article", {"link": item["link"]}, limit=1); if existing
Existing(st, item) == get_documents(st, LinkFilter(item.link), 1) # <<>>

\* doc = {**item, "source_slug": ..., "created_at": datetime.now(timezone.utc), ...}
NewDoc(item, slug, clock) ==
    Article(item.link, item.title, slug, item.published_at, clock)

\* inserted += 1
CountInsert(n) == n + 1

\* Mutant: total = count instead of total += count.
AddCount_Overwrite(tot, count) == count

\* total += count
AddCount(tot, count) == tot + count

\* Mutant: `break` instead of `continue` in the except clause.
AfterEntryError_Break(i, n) == n + 1

\* `continue` in the except clause of the per-entry try
AfterEntryError(i, n) == i + 1

\* Mutant: no try around refresh_articles in get_articles.
AfterRefreshRaise_Propagate(op) == "raise"

\* Where an exception leaving refresh_articles goes: get_articles catches it
\* and reads on, the refresh endpoint lets it out.
AfterRefreshRaise(op) == IF op = "articles" THEN "query" ELSE "raise"

----------------------------------------------------------------------------
(* Handlers. *)

\* Entering refresh_articles: results = {}, total = 0, first source.
BeginRefresh(w) ==
    /\ srcIdx' = [srcIdx EXCEPT ![w] = 1]
    /\ results' = [results EXCEPT ![w] = EmptyCounts]
    /\ total' = [total EXCEPT ![w] = 0]
    /\ feed_items' = [feed_items EXCEPT ![w] = <<>>]
    /\ itemIdx' = [itemIdx EXCEPT ![w] = 1]
    /\ inserted' = [inserted EXCEPT ![w] = 0]
    /\ hist' = [hist EXCEPT ![w] = [NoHist EXCEPT !.prevRun = prevClean,
                                                  !.runStart = store]]

\* A request that does not enter refresh_articles.
NoRefresh(w) ==
    /\ srcIdx' = [srcIdx EXCEPT ![w] = 1]
    /\ results' = [results EXCEPT ![w] = EmptyCounts]
    /\ total' = [total EXCEPT ![w] = 0]
    /\ feed_items' = [feed_items EXCEPT ![w] = <<>>]
    /\ itemIdx' = [itemIdx EXCEPT ![w] = 1]
    /\ inserted' = [inserted EXCEPT ![w] = 0]
    /\ hist' = [hist EXCEPT ![w] = NoHist]

\* GET /api/refresh
StartRefresh(w) ==
    /\ pc[w] = "idle"
    /\ nreq < MaxRequests
    /\ nreq' = nreq + 1
    /\ req' = [req EXCEPT ![w] = [op |-> "refresh", source |-> "", given |-> NullInt,
                                  limit |-> 0, refresh |-> TRUE]]
    /\ resp' = [resp EXCEPT ![w] = NoResp]
    /\ pc' = [pc EXCEPT ![w] = "fetch"]
    /\ BeginRefresh(w)
    /\ UNCHANGED <<store, now, feeds, active, prevClean, pin, pout>>

\* GET /api/articles: parameter validation, then the optional refresh.
StartGetArticles(w) ==
    /\ pc[w] = "idle"
    /\ nreq < MaxRequests
    /\ nreq' = nreq + 1
    /\ \E source \in SourceInputs, given \in LimitInputs, refresh \in BOOLEAN :
        LET limit == LimitParam(given)
            r == [op |-> "articles", source |-> source, given |-> given,
                  limit |-> limit, refresh |-> refresh]
        IN  /\ req' = [req EXCEPT ![w] = r]
            /\ IF ~LimitValid(limit)
               THEN /\ resp' = [resp EXCEPT ![w] =
                                  Response("rejected", <<>>, "", 0, EmptyCounts)]
                    /\ NoRefresh(w)
                    /\ UNCHANGED pc
               ELSE /\ resp' = [resp EXCEPT ![w] = NoResp]
                    /\ IF refresh
                       THEN /\ pc' = [pc EXCEPT ![w] = "fetch"]
                            /\ BeginRefresh(w)
                       ELSE /\ pc' = [pc EXCEPT ![w] = "query"]
                            /\ NoRefresh(w)
    /\ UNCHANGED <<store, now, feeds, active, prevClean, pin, pout>>

\* upsert_articles_for_source up to the loop: inserted = 0, fetch_rss.
\* requests.get or raise_for_status may raise; nothing between here and the
\* endpoint catches it except get_articles' try around refresh_articles.
Fetch(w) ==
    /\ pc[w] = "fetch"
    /\ inserted' = [inserted EXCEPT ![w] = 0]
    /\ \E ok \in BOOLEAN :
        IF ok
        THEN /\ feed_items' = [feed_items EXCEPT ![w] = ParseFeed(feeds[SOURCES[srcIdx[w]]])]
             /\ itemIdx' = [itemIdx EXCEPT ![w] = 1]
             /\ pc' = [pc EXCEPT ![w] = "loop"]
             /\ hist' = [hist EXCEPT ![w].srcStart = store, ![w].checked = {},
                                     ![w].failed = {}, ![w].created = {}]
             /\ UNCHANGED <<resp, prevClean>>
        ELSE /\ hist' = [hist EXCEPT ![w].fetchRaised = TRUE]
             /\ prevClean' = "raised"
             /\ IF AfterRefreshRaise(req[w].op) = "query"
                THEN /\ pc' = [pc EXCEPT ![w] = "query"]
                     /\ UNCHANGED resp
                ELSE /\ pc' = [pc EXCEPT ![w] = "idle"]
                     /\ resp' = [resp EXCEPT ![w] =
                                   Response("refresh_error", <<>>, "", 0, EmptyCounts)]
             /\ UNCHANGED <<feed_items, itemIdx>>
    /\ UNCHANGED <<store, now, feeds, active, nreq, req, srcIdx, results, total,
                   pin, pout>>

\* The loop body up to the insert: the existence check by link.
CheckExists(w) ==
    /\ pc[w] = "loop"
    /\ itemIdx[w] <= Len(feed_items[w])
    /\ \E ok \in BOOLEAN :
        IF ~ok
        THEN /\ itemIdx' = [itemIdx EXCEPT ![w] =
                              AfterEntryError(itemIdx[w], Len(feed_items[w]))]
             /\ hist' = [hist EXCEPT ![w].storeFailed = TRUE,
                                     ![w].checked = @ \cup {itemIdx[w]},
                                     ![w].failed = @ \cup {itemIdx[w]}]
             /\ UNCHANGED pc
        ELSE /\ hist' = [hist EXCEPT ![w].checked = @ \cup {itemIdx[w]}]
             /\ IF Existing(store, feed_items[w][itemIdx[w]])
                THEN /\ itemIdx' = [itemIdx EXCEPT ![w] = @ + 1]
                     /\ UNCHANGED pc
                ELSE /\ pc' = [pc EXCEPT ![w] = "insert"]
                     /\ UNCHANGED itemIdx
    /\ UNCHANGED <<store, now, feeds, active, nreq, req, resp, srcIdx,
                   feed_items, inserted, results, total, prevClean, pin, pout>>

\* The rest of the loop body: build the document, create_document, count it.
Insert(w) ==
    /\ pc[w] = "insert"
    /\ pc' = [pc EXCEPT ![w] = "loop"]
    /\ \E ok \in BOOLEAN :
        IF ok
        THEN /\ store' = create_document(store,
                            NewDoc(feed_items[w][itemIdx[w]], SOURCES[srcIdx[w]], now))
             /\ now' = now + 1
             /\ inserted' = [inserted EXCEPT ![w] = CountInsert(@)]
             /\ itemIdx' = [itemIdx EXCEPT ![w] = @ + 1]
             /\ hist' = [hist EXCEPT ![w].created = @ \cup {itemIdx[w]}]
        ELSE /\ itemIdx' = [itemIdx EXCEPT ![w] =
                              AfterEntryError(itemIdx[w], Len(feed_items[w]))]
             /\ hist' = [hist EXCEPT ![w].storeFailed = TRUE,
                                     ![w].failed = @ \cup {itemIdx[w]}]
             /\ UNCHANGED <<store, now, inserted>>
    /\ UNCHANGED <<feeds, active, nreq, req, resp, srcIdx, feed_items, results,
                   total, prevClean, pin, pout>>

\* The loop is over: upsert_articles_for_source returns inserted, and
\* refresh_articles records it, adds it up and goes on to the next source or
\* returns {"inserted": total, "by_source": results}.
EndSource(w) ==
    /\ pc[w] = "loop"
    /\ itemIdx[w] > Len(feed_items[w])
    /\ LET counts == (SOURCES[srcIdx[w]] :> inserted[w]) @@ results[w]
           tot == AddCount(total[w], inserted[w])
       IN  /\ results' = [results EXCEPT ![w] = counts]
           /\ total' = [total EXCEPT ![w] = tot]
           /\ srcIdx' = [srcIdx EXCEPT ![w] = @ + 1]
           /\ IF srcIdx[w] < Len(SOURCES)
              THEN /\ pc' = [pc EXCEPT ![w] = "fetch"]
                   /\ UNCHANGED <<resp, prevClean>>
              ELSE /\ prevClean' = IF hist[w].storeFailed THEN "failed" ELSE "clean"
                   /\ IF req[w].op = "refresh"
                      THEN /\ pc' = [pc EXCEPT ![w] = "idle"]
                           /\ resp' = [resp EXCEPT ![w] =
                                         Response("ok", <<>>, "", tot, counts)]
                      ELSE /\ pc' = [pc EXCEPT ![w] = "query"]
                           /\ UNCHANGED resp
    /\ UNCHANGED <<store, now, feeds, active, nreq, req, feed_items, itemIdx,
                   inserted, hist, pin, pout>>

\* get_articles' read: the sorted find, on an exception the fallback to
\* get_documents, and the response.  transform rewrites each document in
\* place (_id to id, datetimes to ISO text): the order and the number of the
\* items are those of the read.
Query(w) ==
    /\ pc[w] = "query"
    /\ pc' = [pc EXCEPT ![w] = "idle"]
    /\ LET filt == QueryFilter(req[w].source)
       IN  \E sortedOk \in BOOLEAN, fallbackOk \in BOOLEAN :
            resp' = [resp EXCEPT ![w] =
                IF sortedOk
                THEN Response("ok", find_sorted(store, filt, req[w].limit),
                              "sorted", 0, EmptyCounts)
                ELSE IF fallbackOk
                THEN Response("ok", get_documents(store, filt, req[w].limit),
                              "fallback", 0, EmptyCounts)
                ELSE Response("query_error", <<>>, "", 0, EmptyCounts)]
    /\ UNCHANGED <<store, now, feeds, active, nreq, req, srcIdx, feed_items,
                   itemIdx, inserted, results, total, hist, prevClean, pin, pout>>

\* The feed parser on its own: fetch_rss's parse of one fetched document.
Parse ==
    /\ ~pout.done
    /\ pout' = [done |-> TRUE, entries |-> ParseFeed(pin)]
    /\ UNCHANGED <<store, now, feeds, active, nreq, pc, req, resp, srcIdx,
                   feed_items, itemIdx, inserted, results, total, hist,
                   prevClean, pin>>

----------------------------------------------------------------------------
(* Initial states. *)

I_a1 == RawItem(Some(T_A), Some(L_a), Null, PubText("rfc822_tzname", 1))
I_a2 == RawItem(Some(T_B), Some(L_a_padded), Null, PubText("iso_z", 2))
I_b == RawItem(Some(T_padded), Some(L_ftp), Some(L_b), NoPub)
I_c == RawItem(Some(T_A), Some(L_c), Null, PubText("iso_offset", 2))
I_rel == RawItem(Some(T_B), Null, Some(L_rel), PubText("other", 3))
I_untitled == RawItem(Some(T_blank), Some(L_c), Null, NoPub)

\* What the four feeds may serve: a link twice in one feed and again in
\* another source's feed; an Atom feed whose links come from href; a feed
\* with an untitled item; malformed documents.
FeedConfigs ==
    {[bbc |-> Rss(<<I_a1, I_a2>>), reuters |-> Rss(<<I_a1>>),
      ap |-> Malformed, cnn |-> Atom(<<I_b>>)],
     [bbc |-> Rss(<<I_untitled, I_c>>), reuters |-> Atom(<<I_rel, I_b>>),
      ap |-> Rss(<<I_a2, I_c>>), cnn |-> Malformed]}

\* What the store may hold when the process starts: no two documents share a link.
InitStores ==
    {<<>>, <<Article(L_a, T_A, "cnn", SomeTime(1), 0)>>}

NotParsed == [done |-> FALSE, entries |-> <<>>]

InitThreads ==
    /\ nreq = 0
    /\ pc = [w \in Workers |-> "idle"]
    /\ req = [w \in Workers |-> NoReq]
    /\ resp = [w \in Workers |-> NoResp]
    /\ srcIdx = [w \in Workers |-> 1]
    /\ feed_items = [w \in Workers |-> <<>>]
    /\ itemIdx = [w \in Workers |-> 1]
    /\ inserted = [w \in Workers |-> 0]
    /\ results = [w \in Workers |-> EmptyCounts]
    /\ total = [w \in Workers |-> 0]
    /\ hist = [w \in Workers |-> NoHist]
    /\ prevClean = "none"

\* One request at a time.
Init ==
    /\ store \in InitStores
    /\ now = 1
    /\ feeds \in FeedConfigs
    /\ active = {"w1"}
    /\ InitThreads
    /\ pin = Malformed
    /\ pout = NotParsed

\* Two request threads over feeds that share a link.
InitConc ==
    /\ store = <<>>
    /\ now = 1
    /\ feeds = [x \in Slugs |-> IF x \in {"bbc", "reuters"} THEN Rss(<<I_a1>>) ELSE Malformed]
    /\ active = Workers
    /\ InitThreads
    /\ pin = Malformed
    /\ pout = NotParsed

ParserInputs ==
    {Malformed}
    \cup {Rss(<<it>>) : it \in RawItemInputs}
    \cup {Atom(<<it>>) : it \in RawItemInputs}
    \cup {Rss(<<i1, i2>>) : i1 \in {I_a1, I_untitled, I_rel}, i2 \in {I_b, I_c}}

InitParse ==
    /\ store = <<>>
    /\ now = 1
    /\ feeds = [x \in Slugs |-> Malformed]
    /\ active = {}
    /\ InitThreads
    /\ pin \in ParserInputs
    /\ pout = NotParsed

----------------------------------------------------------------------------
(* Specifications. *)

Next ==
    \/ \E w \in active : StartRefresh(w)
    \/ \E w \in active : StartGetArticles(w)
    \/ \E w \in active : Fetch(w)
    \/ \E w \in active : CheckExists(w)
    \/ \E w \in active : Insert(w)
    \/ \E w \in active : EndSource(w)
    \/ \E w \in active : Query(w)

Spec == Init /\ [][Next]_vars

\* Overlapping requests to the refresh endpoint.
NextConc ==
    \/ \E w \in active : StartRefresh(w)
    \/ \E w \in active : Fetch(w)
    \/ \E w \in active : CheckExists(w)
    \/ \E w \in active : Insert(w)
    \/ \E w \in active : EndSource(w)

SpecConc == InitConc /\ [][NextConc]_vars

NextParse == Parse

SpecParse == InitParse /\ [][NextParse]_vars

----------------------------------------------------------------------------
(* Properties. *)

RECURSIVE SumCounts(_)
SumCounts(f) ==
    IF DOMAIN f = {} THEN 0
    ELSE LET x == CHOOSE y \in DOMAIN f : TRUE
         IN  f[x] + SumCounts([z \in DOMAIN f \ {x} |-> f[z]])

Range(seq) == {seq[i] : i \in 1..Len(seq)}

Min(a, b) == IF a < b THEN a ELSE b

\* The thread has just finished a source in upsert_articles_for_source and
\* refresh_articles has recorded its count; the locals of that source are
\* still in place.
SourceDone(w) ==
    /\ req[w].op # "none"
    /\ srcIdx[w] > 1
    /\ pc[w] = "fetch" \/ srcIdx[w] > Len(SOURCES)

DoneSlug(w) == SOURCES[srcIdx[w] - 1]

\* The thread's request has finished.
Finished(w) == req[w].op # "none" /\ pc[w] = "idle"

\* C1: after any sequence of refreshes run one at a time from a store with no
\* duplicate links, no two stored articles have the same link.
C1_OneArticlePerLink ==
    \A i, j \in 1..Len(store) : store[i].link = store[j].link => i = j

\* A refresh over feeds that repeat a link within one feed and across two
\* sources has run to its end from an empty store.
C1_Witness ==
    /\ feeds.bbc = Rss(<<I_a1, I_a2>>)
    /\ feeds.reuters = Rss(<<I_a1>>)
    /\ hist["w1"].runStart = <<>>
    /\ Finished("w1")
    /\ resp["w1"].kind = "ok"
    /\ req["w1"].op = "refresh"
    /\ ~hist["w1"].storeFailed
    /\ L_a \in Links(store)

\* C2: a fetch failure for one source does not abort the refresh: every
\* source gets an entry in the counts and the refresh endpoint answers.
C2_FetchFailureIsolated ==
    \A w \in active :
        (Finished(w) /\ hist[w].fetchRaised) =>
            /\ DOMAIN results[w] = Slugs
            /\ req[w].op = "refresh" => resp[w].kind = "ok"

C4_CountsAreInserts ==
    \A w \in active :
        /\ total[w] = SumCounts(results[w])
        /\ (Finished(w) /\ resp[w].kind = "ok" /\ req[w].op = "refresh") =>
              resp[w].inserted = SumCounts(resp[w].by_source)
        /\ (SourceDone(w) /\ hist[w].failed = {}) =>
              LET before == hist[w].srcStart
                  count == results[w][DoneSlug(w)]
                  fresh == Links(feed_items[w]) \ Links(before)
              IN  /\ count = Len(store) - Len(before)
                  /\ count = Cardinality(fresh)
                  /\ SubSeq(store, 1, Len(before)) = before
                  /\ {store[i].link : i \in (Len(before) + 1)..Len(store)} = fresh
                  /\ \A i \in (Len(before) + 1)..Len(store) :
                        store[i].source_slug = DoneSlug(w)

\* A source whose feed holds a link already stored and a link not yet stored
\* has been ingested without failure.
C4_Witness ==
    /\ SourceDone("w1")
    /\ hist["w1"].failed = {}
    /\ results["w1"][DoneSlug("w1")] = 1
    /\ Len(feed_items["w1"]) = 2
    /\ Links(feed_items["w1"]) \cap Links(hist["w1"].srcStart) # {}

\* C5: a store failure at one entry is swallowed there: the entry is not
\* counted, every other entry of the feed is still checked and, if absent,
\* inserted, and the source's count is the number of inserts that succeeded.
C5_EntryFailureSwallowed ==
    \A w \in active :
        SourceDone(w) =>
            /\ hist[w].checked = 1..Len(feed_items[w])
            /\ hist[w].failed \cap hist[w].created = {}
            /\ results[w][DoneSlug(w)] = Cardinality(hist[w].created)
            /\ results[w][DoneSlug(w)] = Len(store) - Len(hist[w].srcStart)
            /\ \A i \in 1..Len(feed_items[w]) :
                  i \notin hist[w].failed => feed_items[w][i].link \in Links(store)

\* An entry failed and a later entry of the same feed was inserted.
C5_Witness ==
    /\ SourceDone("w1")
    /\ \E i \in hist["w1"].failed : \E j \in hist["w1"].created : j > i
    /\ results["w1"][DoneSlug("w1")] = 1

\* C6: when the refresh run by a query with the refresh flag fails part-way,
\* the failure is swallowed: the query goes on to its read and answers from
\* the store as it is then, articles inserted before the failure included.
C6_RefreshFailureSwallowed ==
    \A w \in active :
        (req[w].op = "articles" /\ hist[w].fetchRaised) =>
            /\ pc[w] \in {"query", "idle"}
            /\ resp[w].kind # "refresh_error"
            /\ Finished(w) => resp[w].kind \in {"ok", "query_error"}
            /\ resp[w].kind = "ok" =>
                  LET matching == FilterDocs(store, QueryFilter(req[w].source))
                  IN  /\ Range(resp[w].items) \subseteq Range(matching)
                      /\ Len(resp[w].items) = Min(req[w].limit, Len(matching))
                      /\ Cardinality(Range(resp[w].items)) = Len(resp[w].items)

\* The refresh of a query inserted an article, then a later fetch raised, and
\* the query returned that article.
C6_Witness ==
    /\ req["w1"].op = "articles"
    /\ hist["w1"].fetchRaised
    /\ resp["w1"].kind = "ok"
    /\ Len(store) > Len(hist["w1"].runStart)
    /\ store[Len(store)] \in Range(resp["w1"].items)

\* The order the query promises: published-at descending, absent after
\* present, ties by created-at descending.
InQueryOrder(a, b) ==
    \/ a.published_at.some /\ ~b.published_at.some
    \/ a.published_at.some /\ b.published_at.some
          /\ a.published_at.val > b.published_at.val
    \/ a.published_at = b.published_at /\ a.created_at >= b.created_at

\* C7: every result of the article query is in query order, on the sorted
\* path and on the fallback path alike.
C7_ResultsOrdered ==
    \A w \in active :
        (req[w].op = "articles" /\ resp[w].kind = "ok") =>
            \A i, j \in 1..Len(resp[w].items) :
                i < j => InQueryOrder(resp[w].items[i], resp[w].items[j])

\* The limit that clamping to MinLimit..MaxLimit would give.
Clamped(limit) ==
    IF limit > MaxLimit THEN MaxLimit ELSE IF limit < MinLimit THEN MinLimit ELSE limit

Letters ==
    {"a", "b", "c", "d", "e", "f", "g", "h", "i", "j", "k", "l", "m", "n", "o",
     "p", "q", "r", "s", "t", "u", "v", "w", "x", "y", "z"}

\* The text starts with a URL scheme: letters, then "://".
HasUrlScheme(s) ==
    \E k \in 2..(Len(s) - 2) :
        /\ SubSeq(s, k, k + 2) = <<":", "/", "/">>
        /\ \A j \in 1..(k - 1) : s[j] \in Letters

\* C9: every entry the feed parser emits has a non-empty trimmed title and a
\* non-empty link that starts with a URL scheme.
C9_EntriesValid ==
    pout.done =>
        \A i \in 1..Len(pout.entries) :
            LET e == pout.entries[i]
            IN  /\ e.title # <<>>
                /\ Strip(e.title) = e.title
                /\ e.link # <<>>
                /\ HasUrlScheme(e.link)

\* C10: with refreshes running concurrently over feeds that share a link, no
\* interleaving stores two articles with the same link.
C10_NoDuplicateUnderConcurrency ==
    Cardinality(Links(store)) = Len(store)

====
